---------------------------- MODULE Spec2Model ----------------------------
(***************************************************************************)
(* Realtime audio-to-text pipeline of Win-Outlook-Agent:                   *)
(*   AudioRecordingService / AudioProcessor   (src/audio_service.py)       *)
(*   OpenAIRealtimeAudioTextClient            (src/openai_realtime_client.py) *)
(*   VoiceEmailWorkflow                       (src/voice_email_workflow.py) *)
(*                                                                         *)
(* The objects' fields are kept in records that carry the source's field   *)
(* names.  Every method is a function from the state before the call (and  *)
(* the outcome of the I/O it performs) to the state after it, so that a    *)
(* caller that makes several calls in one scheduler step composes them.    *)
(***************************************************************************)
EXTENDS Integers, Sequences, FiniteSets, TLC

(***************************************************************************)
(* Bounds of the model.                                                    *)
(***************************************************************************)
MaxConns  == 2   \* connections opened by one session object
MaxEvents == 3   \* inbound messages the receive loops read, over all connections
MaxOutbox == 2   \* outbound messages on one connection, for a task using the session directly
MaxFrames == 3   \* frames the hardware delivers
MaxCycles == 2   \* stop_and_process() calls

None == 0        \* Python's None for a handle (connection / task ids are >= 1)

\* Last element-preserving helpers on sequences.
Last(s) == s[Len(s)]

LastN(s, n) == IF Len(s) <= n THEN s ELSE SubSeq(s, Len(s) - n + 1, Len(s))

(***************************************************************************)
(* Inbound wire messages.  A decodable message is the JSON object          *)
(* {"type": type, "text": text, "delta": delta}; a key the server left out *)
(* reads as "" (data.get(key, "")).                                        *)
(***************************************************************************)
Msg(type, text, delta) == [json |-> TRUE, type |-> type, text |-> text, delta |-> delta]

Undecodable == [json |-> FALSE, type |-> "", text |-> "", delta |-> ""]

TextDelta(s) == Msg("response.text.delta", "", s)

TextDone(s) == Msg("response.text.done", s, "")

\* The end-to-end scenario: two increments, then the final text.
EndToEndScenario == << TextDelta("Hello"), TextDelta(" world"), TextDone("Hello world.") >>

\* The scenario's progress after message ev is read: one more message of it
\* in order, or -1 once anything else has been read.
FollowScenario(progress, ev) ==
    IF progress >= 0 /\ progress < Len(EndToEndScenario) /\ ev = EndToEndScenario[progress + 1]
    THEN progress + 1
    ELSE -1

\* What the server may put on the wire in this model.
ServerEvents ==
    { TextDelta("Hello"), TextDelta(" world"),
      TextDone("Hello world."),
      Msg("response.done", "ignored", ""),
      Msg("error", "", ""),
      Msg("conversation.item.deleted", "", ""),
      Undecodable }

(***************************************************************************)
(* OpenAIRealtimeAudioTextClient.  A session state st is                   *)
(*   st.cl  : the client object's fields                                   *)
(*   st.net : the connections opened so far, by id 1..Len(st.net)          *)
(*   st.out : the messages sent on the socket opened last, in order        *)
(***************************************************************************)
ClientInit ==
    [ ws                       |-> None,
      session_id               |-> None,
      response_finished        |-> FALSE,
      concatenated_text_buffer |-> "",
      receive_task             |-> None,
      response_event           |-> FALSE ]

\* A freshly opened websocket.
\*   open      the socket is open
\*   loop      the _receive_messages task reading this socket
\*   done_seen a response.text.done was read from it and dispatched
NewConn == [ open |-> TRUE, loop |-> "none", done_seen |-> FALSE ]

\* Base64 of a byte string: an injective re-encoding, kept distinct from the bytes.
B64Encode(bytes) == <<"b64", bytes>>

SessionUpdateMsg == [type |-> "session.update", audio |-> <<>>]

AppendMsg(audio_data) == [type |-> "input_audio_buffer.append", audio |-> B64Encode(audio_data)]

CommitMsg == [type |-> "input_audio_buffer.commit", audio |-> <<>>]

ResponseCreateMsg == [type |-> "response.create", audio |-> <<>>]

\* The handler table: which handler each registered event type maps to.
GenericTypes ==
    { "session.updated", "session.created",
      "input_audio_buffer.cleared", "input_audio_buffer.commited",
      "input_audio_buffer.committed",
      "response.created", "response.done",
      "response.output_item.added", "response.output_item.done",
      "response.content_part.added", "response.content_part.done",
      "conversation.item.created", "rate_limits.updated" }

ErrorTypes == { "session.error", "error" }

message_handlers ==
    [ t \in GenericTypes \cup ErrorTypes \cup {"response.text.delta", "response.text.done"} |->
        CASE t \in GenericTypes -> "generic_logger"
          [] t \in ErrorTypes -> "error_logger"
          [] t = "response.text.delta" -> "_handle_text_delta"
          [] t = "response.text.done" -> "_handle_text_done" ]

\* response_done_handler: mark the response as done and raise the signal.
response_done_handler(cl) ==
    [cl EXCEPT !.response_finished = TRUE, !.response_event = TRUE]

\* _create_generic_logger(...).handler
generic_logger(cl, data) ==
    LET content == IF data.text # "" THEN data.text ELSE ""
    IN  IF data.type = "response.text.done" THEN response_done_handler(cl)
        ELSE IF data.type = "response.text.delta"
             THEN [cl EXCEPT !.concatenated_text_buffer = @ \o content]
             ELSE cl

\* _create_error_logger(...).handler is a plain function: it logs and returns
\* None, and `await None` raises TypeError inside _on_message's try block.
error_logger(cl, data) == cl

\* _handle_text_delta as a client that accumulates the increments would have it.
HandleTextDeltaAppending(cl, data) ==
    [cl EXCEPT !.concatenated_text_buffer = @ \o data.delta]

\* _handle_text_delta: the append is commented out in the source; it only logs.
HandleTextDelta(cl, data) == cl

\* _handle_text_done without the call of response_done_handler.
HandleTextDoneSilent(cl, data) ==
    [cl EXCEPT !.concatenated_text_buffer = @ \o data.text]

\* _handle_text_done: append the final text, then response_done_handler.
HandleTextDone(cl, data) ==
    response_done_handler([cl EXCEPT !.concatenated_text_buffer = @ \o data.text])

\* A generic logger that treats response.done as the end of the response.
DispatchDoneOnResponseDone(cl, data) ==
    IF data.type = "response.done" THEN response_done_handler(cl)
    ELSE IF data.type \notin DOMAIN message_handlers THEN cl
    ELSE CASE message_handlers[data.type] = "generic_logger" -> generic_logger(cl, data)
           [] message_handlers[data.type] = "error_logger" -> error_logger(cl, data)
           [] message_handlers[data.type] = "_handle_text_delta" -> HandleTextDelta(cl, data)
           [] message_handlers[data.type] = "_handle_text_done" -> HandleTextDone(cl, data)

\* _on_message after json.loads succeeded: look the handler up by data["type"].
Dispatch(cl, data) ==
    IF data.type \notin DOMAIN message_handlers THEN cl   \* "Unhandled event type"
    ELSE CASE message_handlers[data.type] = "generic_logger" -> generic_logger(cl, data)
           [] message_handlers[data.type] = "error_logger" -> error_logger(cl, data)
           [] message_handlers[data.type] = "_handle_text_delta" -> HandleTextDelta(cl, data)
           [] message_handlers[data.type] = "_handle_text_done" -> HandleTextDone(cl, data)

\* _on_message: an undecodable message is logged and dropped.
on_message(cl, message) ==
    IF ~message.json THEN cl ELSE Dispatch(cl, message)

\* The messages _on_message only logs: undecodable, of a type that has no
\* handler, or error-bearing.
LoggedOnly(ev) ==
    \/ ~ev.json
    \/ ev.type \notin DOMAIN message_handlers
    \/ ev.type \in ErrorTypes


(***************************************************************************)
(* Calls on the session.  Each returns the state after the call as         *)
(* [cl, net, out, ok]: ok = FALSE when the call raised.                    *)
(***************************************************************************)
Ret(cl, net, out, ok) == [cl |-> cl, net |-> net, out |-> out, ok |-> ok]

\* What the network can make of one connect():
\*   "ok"          handshake and the session.update send both succeed
\*   "refused"     websockets.connect raises
\*   "open_failed" the handshake succeeds and the session.update send raises
ConnectOutcomes == {"ok", "refused", "open_failed"}

\* connect() that skips _on_open(): the receive task is created on a socket
\* on which nothing was sent.
ConnectWithoutOnOpen(st, outcome) ==
    LET id == Len(st.net) + 1
    IN  IF outcome = "refused" THEN Ret(st.cl, st.net, st.out, FALSE)
        ELSE Ret([st.cl EXCEPT !.ws = id, !.receive_task = id],
                 Append(st.net, [NewConn EXCEPT !.loop = "running"]), <<>>, TRUE)

\* connect(): open the socket, _on_open() sends session.update, then the
\* receive task is created.  No other field of the client is assigned.
connect(st, outcome) ==
    LET id == Len(st.net) + 1
    IN  CASE outcome = "refused" -> Ret(st.cl, st.net, st.out, FALSE)
          [] outcome = "open_failed" ->
                Ret([st.cl EXCEPT !.ws = id],
                    Append(st.net, [NewConn EXCEPT !.open = FALSE]), <<>>, FALSE)
          [] outcome = "ok" ->
                Ret([st.cl EXCEPT !.ws = id, !.receive_task = id],
                    Append(st.net, [NewConn EXCEPT !.loop = "running"]),
                    <<SessionUpdateMsg>>, TRUE)

\* await self.ws.send(...): raises when the socket is closed.
WsSend(st, msg) ==
    LET c == st.cl.ws
    IN  IF st.net[c].open
        THEN Ret(st.cl, st.net, Append(st.out, msg), TRUE)
        ELSE Ret(st.cl, st.net, st.out, FALSE)

\* The shared body without the reconnection: no socket is an error.
SendNoReconnect(st, msg, outcome) ==
    IF st.cl.ws = None THEN Ret(st.cl, st.net, st.out, FALSE) ELSE WsSend(st, msg)

\* The body shared by send_audio, commit_audio and start_response:
\* reconnect when there is no socket, then send, re-raising any failure.
SendWithLazyConnect(st, msg, outcome) ==
    LET s1 == IF st.cl.ws = None THEN connect(st, outcome)
              ELSE Ret(st.cl, st.net, st.out, TRUE)
    IN  IF ~s1.ok THEN s1
        ELSE IF s1.cl.ws # None THEN WsSend(s1, msg)
        ELSE [s1 EXCEPT !.ok = FALSE]   \* "Failed to establish WebSocket connection"

send_audio(st, audio_data, outcome) == SendWithLazyConnect(st, AppendMsg(audio_data), outcome)

commit_audio(st, outcome) == SendWithLazyConnect(st, CommitMsg, outcome)

start_response(st, outcome) == SendWithLazyConnect(st, ResponseCreateMsg, outcome)

\* disconnect(): close the socket and cancel the receive task if there is a
\* socket; clear ws and session_id in every case.
disconnect(st) ==
    LET c == st.cl.ws
        t == st.cl.receive_task
        closed == IF c # None THEN [st.net EXCEPT ![c].open = FALSE] ELSE st.net
        n == IF c # None /\ t # None /\ closed[t].loop = "running"
             THEN [closed EXCEPT ![t].loop = "cancelled"]
             ELSE closed
    IN  Ret([st.cl EXCEPT !.ws = None, !.session_id = None], n, st.out, TRUE)

\* wait_for_response() without the `except asyncio.TimeoutError` clause.
WaitForResponseNoCatch(st) ==
    LET signalled == st.cl.response_event
        c1 == IF signalled THEN [st.cl EXCEPT !.response_event = FALSE] ELSE st.cl
        s0 == [st EXCEPT !.cl = c1]
        s1 == IF c1.response_finished THEN disconnect(s0) ELSE s0
    IN  [cl |-> s1.cl, net |-> s1.net, out |-> s1.out, ok |-> signalled,
         value |-> IF signalled THEN "True" ELSE "TimeoutError"]

\* The end of wait_for_response(): with the signal set the wait returns, the
\* signal is cleared and the result is True; without it the 10 s timer ends
\* the wait and the result is False.  The finally block disconnects when
\* response_finished is set.  The result is returned in field `value`.
wait_for_response(st) ==
    LET signalled == st.cl.response_event
        c1 == IF signalled THEN [st.cl EXCEPT !.response_event = FALSE] ELSE st.cl
        s0 == [st EXCEPT !.cl = c1]
        s1 == IF c1.response_finished THEN disconnect(s0) ELSE s0
    IN  [cl |-> s1.cl, net |-> s1.net, out |-> s1.out, ok |-> TRUE,
         value |-> IF signalled THEN "True" ELSE "False"]

\* _receive_messages with an _on_message that lets a handler's exception and
\* a decoding error out: the loop ends on a message that is only logged.
ReceiveOneFatal(st, c, message) ==
    IF LoggedOnly(message)
    THEN Ret(st.cl, [st.net EXCEPT ![c].loop = "failed"], st.out, TRUE)
    ELSE Ret(on_message(st.cl, message),
             IF message.type = "response.text.done"
             THEN [st.net EXCEPT ![c].done_seen = TRUE] ELSE st.net,
             st.out, TRUE)

\* One iteration of _receive_messages on connection c: the next message of
\* the socket is read and _on_message(message) is awaited.
receive_one(st, c, message) ==
    Ret(on_message(st.cl, message),
        IF message.json /\ message.type = "response.text.done"
        THEN [st.net EXCEPT ![c].done_seen = TRUE]
        ELSE st.net,
        st.out, TRUE)

(***************************************************************************)
(* AudioProcessor and AudioRecordingService.                               *)
(*                                                                         *)
(* A chunk is the audio of one hardware frame: [frame |-> its number,      *)
(* rate |-> the sample rate its samples are at].  A frame of blocksize     *)
(* samples at rate r resampled by up/down holds blocksize * up / down      *)
(* samples, the audio at rate r * up / down.                               *)
(***************************************************************************)
sample_rate == 48000          \* AudioRecordingService(sample_rate = 48000)

target_sample_rate == 24000   \* AudioRecordingService(target_sample_rate = 24000)

source_sample_rate == 48000   \* AudioProcessor.source_sample_rate

QueueCap == 2    \* capacity of audio_queue (asyncio.Queue(maxsize = 100) in the source)

Chunk(frame, rate) == [frame |-> frame, rate |-> rate]

\* AudioProcessor(target_sample_rate): the source rate is fixed.
AudioProcessor(target) ==
    [ target_sample_rate |-> target, source_sample_rate |-> source_sample_rate ]

\* AudioProcessor.process_audio_chunk: unchanged when the processor's two
\* rates are equal, otherwise resample_poly(up = target, down = source).
process_audio_chunk(self, audio_data) ==
    IF self.target_sample_rate = self.source_sample_rate
    THEN audio_data
    ELSE Chunk(audio_data.frame,
               (audio_data.rate * self.target_sample_rate) \div self.source_sample_rate)

\* AudioRecordingService(sample_rate = sr, target_sample_rate = tr).
AudioRecordingService(sr, tr) ==
    [ sample_rate        |-> sr,
      target_sample_rate |-> tr,
      recording          |-> FALSE,
      initialized        |-> FALSE,
      stream             |-> "none",     \* "none" | "open" (not started) | "active"
      audio_data         |-> <<>>,
      audio_queue        |-> <<>>,
      audio_processor    |-> AudioProcessor(tr) ]

\* The service the workflow constructs: AudioRecordingService().
AudioInit == AudioRecordingService(sample_rate, target_sample_rate)

\* What the sound driver can make of one initialize().
InitializeOutcomes == {"ok", "no_device"}

\* AudioRecordingService.initialize; value is what it returns.
initialize(a, outcome) ==
    IF a.initialized THEN [a |-> a, value |-> TRUE]
    ELSE IF outcome = "ok" THEN [a |-> [a EXCEPT !.initialized = TRUE], value |-> TRUE]
    ELSE [a |-> a, value |-> FALSE]

\* What the sound driver can make of one start_recording():
\*   "ok"           the stream is opened and started
\*   "open_failed"  sd.InputStream(...) raises
\*   "start_failed" the stream is opened and stream.start() raises
StartOutcomes == {"ok", "open_failed", "start_failed"}

\* AudioRecordingService.start_recording; ok = FALSE when it raised.
start_recording(a, outcome) ==
    IF a.recording THEN [a |-> a, ok |-> TRUE]     \* "Recording already in progress"
    ELSE CASE outcome = "open_failed" ->
                [a |-> [a EXCEPT !.audio_data = <<>>, !.recording = FALSE], ok |-> FALSE]
           [] outcome = "start_failed" ->
                [a |-> [a EXCEPT !.audio_data = <<>>, !.stream = "open", !.recording = FALSE],
                 ok |-> FALSE]
           [] outcome = "ok" ->
                [a |-> [a EXCEPT !.audio_data = <<>>, !.stream = "active", !.recording = TRUE],
                 ok |-> TRUE]

\* process_and_queue with a queue that refuses the new chunk when it is full.
PutDropNewest(q, processed_audio) ==
    IF Len(q) < QueueCap THEN Append(q, processed_audio) ELSE q

\* process_and_queue that puts without making room.
PutUnbounded(q, processed_audio) == Append(q, processed_audio)

\* The body of process_and_queue on the queue: put when there is room,
\* otherwise get_nowait() (the oldest chunk) and then put.
process_and_queue(q, processed_audio) ==
    IF Len(q) < QueueCap                    \* not self.audio_queue.full()
    THEN Append(q, processed_audio)
    ELSE Append(Tail(q), processed_audio)

\* An exception inside _audio_callback's try block:
\*   "none"      nothing raises
\*   "process"   process_audio_chunk raises (nothing was appended yet)
\*   "schedule"  run_coroutine_threadsafe raises (the chunk is in audio_data)
CallbackFaults == {"none", "process", "schedule"}

\* _audio_callback without its try / except: the exception leaves the callback.
AudioCallbackNoCatch(a, sched, indata, input_overflow, fault) ==
    IF input_overflow THEN [a |-> a, sched |-> sched, raised |-> FALSE]
    ELSE IF fault = "process" THEN [a |-> a, sched |-> sched, raised |-> TRUE]
    ELSE LET processed_audio == process_audio_chunk(a.audio_processor, indata)
             a1 == [a EXCEPT !.audio_data = Append(@, processed_audio)]
         IN  IF fault = "schedule" THEN [a |-> a1, sched |-> sched, raised |-> TRUE]
             ELSE [a |-> a1, sched |-> Append(sched, processed_audio), raised |-> FALSE]

\* _audio_callback that keeps the frame as delivered in audio_data.
AudioCallbackKeepsRaw(a, sched, indata, input_overflow, fault) ==
    IF input_overflow \/ fault = "process" THEN [a |-> a, sched |-> sched, raised |-> FALSE]
    ELSE LET processed_audio == process_audio_chunk(a.audio_processor, indata)
             a1 == [a EXCEPT !.audio_data = Append(@, indata)]
         IN  [a |-> a1,
              sched |-> IF fault = "schedule" THEN sched ELSE Append(sched, processed_audio),
              raised |-> FALSE]

\* The part of _audio_callback that runs in the driver's thread: an overflowed
\* frame is dropped; otherwise the processed chunk is appended to audio_data
\* and process_and_queue() for it is scheduled on the event loop.  An
\* exception on the way is caught and logged.
\* Returns the service, the coroutines scheduled on the loop, and whether
\* an exception left the callback.
audio_callback(a, sched, indata, input_overflow, fault) ==
    IF input_overflow \/ fault = "process" THEN [a |-> a, sched |-> sched, raised |-> FALSE]
    ELSE LET processed_audio == process_audio_chunk(a.audio_processor, indata)
             a1 == [a EXCEPT !.audio_data = Append(@, processed_audio)]
         IN  [a |-> a1,
              sched |-> IF fault = "schedule" THEN sched ELSE Append(sched, processed_audio),
              raised |-> FALSE]

\* stop_recording: value is the audio returned (the chunks concatenated).
\* The queue is emptied only on the path that returns audio.
stop_recording(a) ==
    IF ~a.recording THEN [a |-> a, value |-> <<>>]      \* "No recording in progress"
    ELSE LET a1 == [a EXCEPT !.stream = "none", !.recording = FALSE]
         IN  IF a1.audio_data = <<>>
             THEN [a |-> a1, value |-> <<>>]            \* "No audio data recorded"
             ELSE [a |-> [a1 EXCEPT !.audio_queue = <<>>], value |-> a1.audio_data]

\* cleanup that stops a recording but does not close a stream it finds
\* while not recording.
CleanupKeepsStream(a) ==
    LET a1 == IF a.recording THEN stop_recording(a).a ELSE a
    IN  [a1 EXCEPT !.initialized = FALSE]

\* AudioRecordingService.cleanup: stop if recording, close and forget the
\* stream, reset _initialized.  (The driver's stop() and close() succeed.)
cleanup(a) ==
    LET a1 == IF a.recording THEN stop_recording(a).a ELSE a
    IN  [a1 EXCEPT !.stream = "none", !.initialized = FALSE]

NoChunk == Chunk(0, 0)    \* get_audio_chunk's None

\* get_audio_chunk that hands out the newest chunk of the queue.
GetNewestChunk(a) ==
    IF a.audio_queue = <<>> THEN [a |-> a, value |-> NoChunk]
    ELSE [a |-> [a EXCEPT !.audio_queue = SubSeq(@, 1, Len(@) - 1)],
          value |-> Last(a.audio_queue)]

\* get_audio_chunk: the head of the queue, or None when the queue stays
\* empty for the 0.1 s of the wait.
get_audio_chunk(a) ==
    IF a.audio_queue = <<>> THEN [a |-> a, value |-> NoChunk]
    ELSE [a |-> [a EXCEPT !.audio_queue = Tail(@)], value |-> Head(a.audio_queue)]

(***************************************************************************)
(* State.                                                                  *)
(***************************************************************************)
VARIABLES
    sess,      \* the duplex session: [cl, net, out]
    caller,    \* a task that uses the session directly: where it is in its call
    returned,  \* what that task's last wait_for_response() returned: "True" / "False"
    hist,      \* history: [delivered, scenario, at_connect, answered, logged_only]
    audio,     \* the AudioRecordingService's fields
    scheduled, \* process_and_queue() coroutines scheduled on the loop, not yet run
    wf,        \* the VoiceEmailWorkflow's fields
    pumps,     \* the _stream_audio_to_openai tasks created so far
    starter,   \* the task running VoiceEmailWorkflow.start_recording
    stopper,   \* the task running VoiceEmailWorkflow.stop_and_process
    flow       \* history of the audio path and of the workflow's results

progVars == <<audio, scheduled, wf, pumps, starter, stopper, flow>>

vars == <<sess, caller, returned, hist, progVars>>

cl == sess.cl

net == sess.net

Conns == 1..Len(net)

\* The client fields as they are when connect() has returned.
Snapshot(c) ==
    [ response_event |-> c.response_event,
      response_finished |-> c.response_finished,
      concatenated_text_buffer |-> c.concatenated_text_buffer ]

\* hist.delivered   messages the receive loops have read, over all connections
\* hist.scenario    how far the messages read from the first connection follow
\*                  EndToEndScenario
\* hist.at_connect  Snapshot of the client when the latest connect() returned
\* hist.answered    response.create messages of the latest socket the server
\*                  has answered
\* hist.logged_only a message that is only logged (LoggedOnly) has been read
HistInit ==
    [ delivered |-> 0, scenario |-> 0, at_connect |-> Snapshot(ClientInit), answered |-> 0,
      logged_only |-> FALSE ]

\* VoiceEmailWorkflow.__init__.  _current_audio_data = None is the empty
\* sequence; stream_task = None stands for "no _stream_task attribute".
WorkflowInit ==
    [ transcript         |-> "",
      is_processing      |-> FALSE,
      is_shutting_down   |-> FALSE,
      current_audio_data |-> <<>>,
      stream_task        |-> None ]

\* flow.frames     frames the hardware has delivered to _audio_callback
\* flow.produced   the chunks _audio_callback produced, in order
\* flow.sent       the chunks the pump tasks passed to send_audio, in order
\* flow.run        the chunks put on the queue since a chunk was last taken off it
\*                 by a consumer (get_audio_chunk or stop_recording)
\* flow.consumed   the transcripts handed to the email-drafting agent, in order
\* flow.result     how the last stop_and_process() ended
\* flow.refused    the last call of the workflow that returned at its guard
\* flow.att        the messages passed to the session's sends by the current
\*                 attempt of the retry loop, in order
\* History of the calls made on the AudioRecordingService directly:
\*   last     the last call and how it ended
\*   raw      the frames, as delivered, that reached audio_data since the
\*            last start_recording that started a capture
\*   ret      what the last stop_recording returned
\*   faulted  a frame's processing raised inside the callback
\*   resumed  a frame was processed in full after that
CaptureHistInit ==
    [ last |-> "none", raw |-> <<>>, ret |-> <<>>, faulted |-> FALSE, resumed |-> FALSE ]

FlowInit ==
    [ frames |-> 0, produced |-> <<>>, sent |-> <<>>, run |-> <<>>,
      consumed |-> <<>>, result |-> "none", att |-> <<>>, refused |-> "none",
      cap |-> CaptureHistInit ]

\* stopper.pc      where stop_and_process is suspended ("idle": not running)
\* stopper.attempt the retry loop's `attempt`
\* stopper.idx     slices of the retained audio sent in this attempt
\* stopper.err     the exception on its way out through the finally block
StopperIdle == [ pc |-> "idle", attempt |-> 0, idx |-> 0, err |-> "none" ]

Init ==
    /\ sess = [cl |-> ClientInit, net |-> <<>>, out |-> <<>>]
    /\ caller = [pc |-> "idle", buf0 |-> ""]
    /\ returned = "none"
    /\ hist = HistInit
    /\ audio = AudioInit
    /\ scheduled = <<>>
    /\ wf = WorkflowInit
    /\ pumps = <<>>
    /\ starter = "idle"
    /\ stopper = StopperIdle
    /\ flow = FlowInit

\* Result r of a call opened a connection and its connect() returned normally.
Connected(r) == Len(r.net) > Len(net) /\ r.net[Len(r.net)].loop = "running"

\* The session after a call with result r.
Store(r) ==
    /\ sess' = [cl |-> r.cl, net |-> r.net, out |-> r.out]
    /\ hist' = IF Connected(r)
               THEN [hist EXCEPT !.at_connect = Snapshot(r.cl), !.answered = 0]
               ELSE hist

\* A call may open a connection only while the model has one left, and may
\* send only while the socket's outbox has room.
MayCall ==
    /\ caller.pc = "idle"
    /\ cl.ws = None => Len(net) < MaxConns
    /\ cl.ws # None => Len(sess.out) < MaxOutbox

(***************************************************************************)
(* The session used directly by one task.                                  *)
(***************************************************************************)
CallConnect ==
    /\ caller.pc = "idle"
    /\ Len(net) < MaxConns
    /\ \E outcome \in ConnectOutcomes :
          LET r == connect(sess, outcome)
          IN  Store(r)
    /\ UNCHANGED <<caller, returned, progVars>>

CallSendAudio ==
    /\ MayCall
    /\ \E outcome \in ConnectOutcomes :
          LET r == send_audio(sess, <<1>>, outcome)
          IN  Store(r)
    /\ UNCHANGED <<caller, returned, progVars>>

CallCommitAudio ==
    /\ MayCall
    /\ \E outcome \in ConnectOutcomes :
          LET r == commit_audio(sess, outcome)
          IN  Store(r)
    /\ UNCHANGED <<caller, returned, progVars>>

CallStartResponse ==
    /\ MayCall
    /\ \E outcome \in ConnectOutcomes :
          LET r == start_response(sess, outcome)
          IN  Store(r)
    /\ UNCHANGED <<caller, returned, progVars>>

CallDisconnect ==
    /\ caller.pc = "idle"
    /\ Store(disconnect(sess))
    /\ UNCHANGED <<caller, returned, progVars>>

\* wait_for_response() is entered and suspends in wait_for(response_event.wait()).
CallWaitForResponse ==
    /\ caller.pc = "idle"
    /\ caller' = [pc |-> "waiting", buf0 |-> cl.concatenated_text_buffer]
    /\ UNCHANGED <<sess, returned, hist, progVars>>

\* The signal is set: the wait ends and wait_for_response returns True.
WaitReturn ==
    /\ caller.pc = "waiting"
    /\ cl.response_event
    /\ LET r == wait_for_response(sess)
       IN  /\ Store(r)
           /\ returned' = r.value
    /\ caller' = [caller EXCEPT !.pc = "idle"]
    /\ UNCHANGED progVars

\* The 10 s pass without the signal: wait_for_response returns False.
WaitTimeout ==
    /\ caller.pc = "waiting"
    /\ ~cl.response_event
    /\ LET r == wait_for_response(sess)
       IN  /\ Store(r)
           /\ returned' = r.value
    /\ caller' = [caller EXCEPT !.pc = "idle"]
    /\ UNCHANGED progVars

(***************************************************************************)
(* The network and the receive loops.                                      *)
(***************************************************************************)
\* The server's next message on connection c is ev; the receive loop of c
\* reads and handles it.
Receive(c, ev) ==
    /\ net[c].open
    /\ net[c].loop = "running"
    /\ hist.delivered < MaxEvents
    /\ LET r == receive_one(sess, c, ev)
       IN  /\ sess' = [cl |-> r.cl, net |-> r.net, out |-> r.out]
           /\ hist' = [hist EXCEPT !.delivered = @ + 1,
                                   !.scenario = IF c = 1 THEN FollowScenario(@, ev) ELSE @,
                                   !.logged_only = @ \/ LoggedOnly(ev)]
    /\ UNCHANGED <<caller, returned, progVars>>

NextSession ==
    \/ CallConnect
    \/ CallSendAudio
    \/ CallCommitAudio
    \/ CallStartResponse
    \/ CallDisconnect
    \/ CallWaitForResponse
    \/ WaitReturn
    \/ WaitTimeout
    \/ \E c \in Conns, ev \in ServerEvents : Receive(c, ev)

SpecSession == Init /\ [][NextSession]_vars


(***************************************************************************)
(* VoiceEmailWorkflow: start_recording, the pump _stream_audio_to_openai    *)
(* and stop_and_process, one action per stretch between suspension points. *)
(***************************************************************************)
max_retries == 3      \* stop_and_process: max_retries = 3

SliceChunks == 2      \* chunks in one slice of chunk_size = 32 * 1024 bytes

\* The answers of the server to a response.create.
WorkflowEvents == { TextDone("Hello world."), TextDone("") }

\* A connect() made once the model's connections are used up is refused.
ConnectChoices == IF Len(net) < MaxConns THEN ConnectOutcomes ELSE {"refused"}

NewPump == [ pc |-> "poll", chunk |-> NoChunk ]

\* A guard of start_recording that looks at is_shutting_down only.
WorkflowShuttingDown(w) == w.is_shutting_down

\* The guard of start_recording: "Workflow already in progress".
WorkflowBusy(w) == w.is_processing \/ w.is_shutting_down

\* start_recording up to `await self.openai_client.connect()`.
WfStartRecording ==
    /\ starter = "idle"
    /\ ~WorkflowBusy(wf)
    /\ wf' = [wf EXCEPT !.is_processing = TRUE]
    /\ starter' = "connecting"
    /\ UNCHANGED <<sess, hist, caller, returned, audio, scheduled, pumps, stopper, flow>>

\* connect() has ended; on success the capture is started and the pump task
\* created.  Any failure clears is_processing and is re-raised.
WfStartConnected ==
    /\ starter = "connecting"
    /\ \E co \in ConnectChoices, so \in StartOutcomes :
          LET r == connect(sess, co)
              a == start_recording(audio, so)
          IN  /\ Store(r)
              /\ IF ~r.ok
                 THEN /\ wf' = [wf EXCEPT !.is_processing = FALSE]
                      /\ UNCHANGED <<audio, pumps>>
                 ELSE IF ~a.ok
                 THEN /\ audio' = a.a
                      /\ wf' = [wf EXCEPT !.is_processing = FALSE]
                      /\ UNCHANGED pumps
                 ELSE /\ audio' = a.a
                      /\ pumps' = Append(pumps, NewPump)
                      /\ wf' = [wf EXCEPT !.stream_task = Len(pumps) + 1]
    /\ starter' = "idle"
    /\ UNCHANGED <<caller, returned, scheduled, stopper, flow>>

\* The driver delivers the next frame to _audio_callback, which processes it
\* without an exception.
AudioCallback ==
    /\ audio.stream = "active"
    /\ flow.frames < MaxFrames
    /\ \E input_overflow \in BOOLEAN :
          LET indata == Chunk(flow.frames + 1, audio.sample_rate)
              r == audio_callback(audio, scheduled, indata, input_overflow, "none")
          IN  /\ audio' = r.a
              /\ scheduled' = r.sched
              /\ flow' = [flow EXCEPT !.frames = @ + 1,
                                      !.produced = IF input_overflow THEN @
                                                   ELSE Append(@, process_audio_chunk(audio.audio_processor, indata))]
    /\ UNCHANGED <<sess, hist, caller, returned, wf, pumps, starter, stopper>>

\* The event loop runs the oldest scheduled process_and_queue().
ProcessAndQueue ==
    /\ scheduled # <<>>
    /\ audio' = [audio EXCEPT !.audio_queue = process_and_queue(@, Head(scheduled))]
    /\ scheduled' = Tail(scheduled)
    /\ flow' = [flow EXCEPT !.run = Append(@, Head(scheduled))]
    /\ UNCHANGED <<sess, hist, caller, returned, wf, pumps, starter, stopper>>

\* Pump i: get_audio_chunk() returns a chunk, which is passed to send_audio.
\* (An empty poll and the sleep after it change nothing and are left out.)
PumpGet(i) ==
    /\ pumps[i].pc = "poll"
    /\ audio.recording
    /\ audio.audio_queue # <<>>
    /\ LET r == get_audio_chunk(audio)
       IN  /\ audio' = r.a
           /\ pumps' = [pumps EXCEPT ![i] = [pc |-> "sending", chunk |-> r.value]]
           /\ flow' = [flow EXCEPT !.sent = Append(@, r.value), !.run = <<>>]
    /\ UNCHANGED <<sess, hist, caller, returned, scheduled, wf, starter, stopper>>

\* Pump i: send_audio(chunk) ends; a failure ends the task with the error.
PumpSend(i) ==
    /\ pumps[i].pc = "sending"
    /\ \E co \in ConnectChoices :
          LET r == send_audio(sess, <<pumps[i].chunk>>, co)
          IN  /\ Store(r)
              /\ pumps' = [pumps EXCEPT ![i] = [pc |-> IF r.ok THEN "poll" ELSE "failed",
                                                chunk |-> NoChunk]]
    /\ UNCHANGED <<caller, returned, audio, scheduled, wf, starter, stopper, flow>>

\* Pump i: the capture is no longer recording and the loop ends.
PumpExit(i) ==
    /\ pumps[i].pc = "poll"
    /\ ~audio.recording
    /\ pumps' = [pumps EXCEPT ![i].pc = "done"]
    /\ UNCHANGED <<sess, hist, caller, returned, audio, scheduled, wf, starter, stopper, flow>>

\* The finally block is entered with exception err ("none": no exception):
\* EmailDraftAgent().run(user_input = self.transcript) is called with the
\* transcript t the workflow holds at that moment.
EnterFinally(err, t) ==
    /\ stopper' = [stopper EXCEPT !.pc = "finally", !.err = err]
    /\ flow' = [flow EXCEPT !.consumed = Append(@, t), !.att = <<>>]

\* stop_and_process up to the end of the wait for the cancelled pump task.
\* Awaiting a pump task that ended with an error re-raises that error.
SpEnter ==
    /\ stopper.pc = "idle"
    /\ wf.is_processing
    /\ Len(flow.consumed) < MaxCycles
    /\ LET t == wf.stream_task
       IN  IF t # None /\ pumps[t].pc = "failed"
           THEN /\ EnterFinally("pump error", wf.transcript)
                /\ UNCHANGED pumps
           ELSE /\ pumps' = IF t # None /\ pumps[t].pc \in {"poll", "sending"}
                            THEN [pumps EXCEPT ![t] = [pc |-> "cancelled", chunk |-> NoChunk]]
                            ELSE pumps
                /\ stopper' = [StopperIdle EXCEPT !.pc = "stop"]
                /\ UNCHANGED flow
    /\ UNCHANGED <<sess, hist, caller, returned, audio, scheduled, wf, starter>>

\* stop_and_process without the check for empty audio: whatever
\* stop_recording() returns is retained and the drain loop is entered.
SpStopIgnoresEmpty ==
    /\ stopper.pc = "stop"
    /\ LET r == stop_recording(audio)
       IN  /\ audio' = r.a
           /\ wf' = [wf EXCEPT !.current_audio_data = r.value]
           /\ stopper' = [stopper EXCEPT !.pc = "drain"]
           /\ flow' = [flow EXCEPT !.run = IF r.a.audio_queue # audio.audio_queue THEN <<>> ELSE @]
    /\ UNCHANGED <<sess, hist, caller, returned, scheduled, pumps, starter>>

\* stop_recording() has run in the executor: no audio raises ValueError,
\* otherwise the audio is retained for the retry loop.
SpStop ==
    /\ stopper.pc = "stop"
    /\ LET r == stop_recording(audio)
           emptied == r.a.audio_queue # audio.audio_queue
       IN  /\ audio' = r.a
           /\ IF r.value = <<>>
              THEN /\ EnterFinally("ValueError: No audio data recorded", wf.transcript)
                   /\ UNCHANGED wf
              ELSE /\ wf' = [wf EXCEPT !.current_audio_data = r.value]
                   /\ stopper' = [stopper EXCEPT !.pc = "drain"]
                   /\ flow' = [flow EXCEPT !.run = IF emptied THEN <<>> ELSE @]
    /\ UNCHANGED <<sess, hist, caller, returned, scheduled, pumps, starter>>

\* The drain loop gets a chunk and appends it to the retained audio.
SpDrain ==
    /\ stopper.pc = "drain"
    /\ audio.audio_queue # <<>>
    /\ LET r == get_audio_chunk(audio)
       IN  /\ audio' = r.a
           /\ wf' = [wf EXCEPT !.current_audio_data = Append(@, r.value)]
           /\ flow' = [flow EXCEPT !.run = <<>>]
    /\ UNCHANGED <<sess, hist, caller, returned, scheduled, pumps, starter, stopper>>

\* The drain loop's get_audio_chunk() times out (the loop has run every
\* coroutine scheduled before the 0.1 s passed); then the socket is checked.
SpDrainEnd ==
    /\ stopper.pc = "drain"
    /\ audio.audio_queue = <<>>
    /\ scheduled = <<>>
    /\ IF cl.ws = None
       THEN EnterFinally("RuntimeError: WebSocket connection lost", wf.transcript)
       ELSE /\ stopper' = [stopper EXCEPT !.pc = "attempt", !.attempt = 0]
            /\ UNCHANGED flow
    /\ UNCHANGED <<sess, hist, caller, returned, audio, scheduled, wf, pumps, starter>>

\* An attempt of the retry loop begins: reconnect when there is no socket.
SpAttempt ==
    /\ stopper.pc = "attempt"
    /\ \E co \in ConnectChoices :
          LET r == IF cl.ws = None THEN connect(sess, co)
                   ELSE Ret(sess.cl, sess.net, sess.out, TRUE)
          IN  /\ Store(r)
              /\ IF r.ok
                 THEN /\ stopper' = [stopper EXCEPT !.pc = "slices", !.idx = 0]
                      /\ UNCHANGED flow
                 ELSE EnterFinally("connect error", wf.transcript)
    /\ UNCHANGED <<caller, returned, audio, scheduled, wf, pumps, starter>>

\* range(0, len(data), chunk_size) that leaves out a last, shorter slice.
NumSlicesWhole(data) ==
    IF Len(data) < SliceChunks THEN 1 ELSE Len(data) \div SliceChunks

\* The slices of the retained audio: chunk_size bytes each, the last shorter.
NumSlices(data) == (Len(data) + SliceChunks - 1) \div SliceChunks

Slice(data, k) ==
    SubSeq(data, k * SliceChunks + 1,
           IF (k + 1) * SliceChunks < Len(data) THEN (k + 1) * SliceChunks ELSE Len(data))

\* The next slice of the retained audio is sent.
SpSlice ==
    /\ stopper.pc = "slices"
    /\ \E co \in ConnectChoices :
          LET chunk == Slice(wf.current_audio_data, stopper.idx)
              r == send_audio(sess, chunk, co)
          IN  /\ Store(r)
              /\ IF r.ok
                 THEN /\ stopper' = [stopper EXCEPT
                            !.idx = @ + 1,
                            !.pc = IF stopper.idx + 1 >= NumSlices(wf.current_audio_data)
                                   THEN "commit" ELSE "slices"]
                      /\ flow' = [flow EXCEPT !.att = Append(@, AppendMsg(chunk))]
                 ELSE EnterFinally("send error", wf.transcript)
    /\ UNCHANGED <<caller, returned, audio, scheduled, wf, pumps, starter>>

SpCommit ==
    /\ stopper.pc = "commit"
    /\ \E co \in ConnectChoices :
          LET r == commit_audio(sess, co)
          IN  /\ Store(r)
              /\ IF r.ok
                 THEN /\ stopper' = [stopper EXCEPT !.pc = "respond"]
                      /\ flow' = [flow EXCEPT !.att = Append(@, CommitMsg)]
                 ELSE EnterFinally("send error", wf.transcript)
    /\ UNCHANGED <<caller, returned, audio, scheduled, wf, pumps, starter>>

SpRespond ==
    /\ stopper.pc = "respond"
    /\ \E co \in ConnectChoices :
          LET r == start_response(sess, co)
          IN  /\ Store(r)
              /\ IF r.ok
                 THEN /\ stopper' = [stopper EXCEPT !.pc = "wait"]
                      /\ flow' = [flow EXCEPT !.att = Append(@, ResponseCreateMsg)]
                 ELSE EnterFinally("send error", wf.transcript)
    /\ UNCHANGED <<caller, returned, audio, scheduled, wf, pumps, starter>>

\* A retry loop without retries: the first attempt without a transcript
\* raises err.
FailAtOnce(err) == EnterFinally(err, wf.transcript)

\* After an attempt that produced no transcript: the next attempt, or the
\* error err once max_retries attempts have been made.
RetryOr(err) ==
    IF stopper.attempt < max_retries - 1
    THEN /\ stopper' = [stopper EXCEPT !.pc = "attempt", !.attempt = @ + 1]
         /\ flow' = [flow EXCEPT !.att = <<>>]
    ELSE EnterFinally(err, wf.transcript)

\* wait_for_response() returns (True, or False by its own timeout); its
\* result is not looked at: the transcript buffer decides.
SpWaitReturns ==
    /\ stopper.pc = "wait"
    /\ LET r == wait_for_response(sess)
       IN  /\ Store(r)
           /\ IF r.cl.concatenated_text_buffer = ""
              THEN /\ RetryOr("RuntimeError: No transcription received after all retries")
                   /\ UNCHANGED wf
              ELSE /\ wf' = [wf EXCEPT !.transcript = r.cl.concatenated_text_buffer]
                   /\ EnterFinally("none", r.cl.concatenated_text_buffer)
    /\ UNCHANGED <<caller, returned, audio, scheduled, pumps, starter>>

\* wait_for_response() cancelled from outside: only its finally block runs.
wait_for_response_cancelled(st) ==
    IF st.cl.response_finished THEN disconnect(st) ELSE Ret(st.cl, st.net, st.out, FALSE)

\* The workflow's own 10 s wait_for ends first: wait_for_response() is
\* cancelled and asyncio.TimeoutError reaches the retry loop.
SpWaitTimesOut ==
    /\ stopper.pc = "wait"
    /\ ~cl.response_event
    /\ Store(wait_for_response_cancelled(sess))
    /\ RetryOr("RuntimeError: Response timeout after all retries")
    /\ UNCHANGED <<caller, returned, audio, scheduled, wf, pumps, starter>>

\* What EmailDraftAgent().run(...) can do: return, or raise.
ConsumerOutcomes == {"ok", "raised"}

\* The email-drafting agent ends.  If it raised, the rest of the finally
\* block is skipped; otherwise is_processing is cleared and the session is
\* disconnected when it holds a socket.
SpConsumerEnds ==
    /\ stopper.pc = "finally"
    /\ \E outcome \in ConsumerOutcomes :
          IF outcome = "raised"
          THEN /\ stopper' = StopperIdle
               /\ flow' = [flow EXCEPT !.result = "consumer error"]
               /\ UNCHANGED wf
          ELSE /\ wf' = [wf EXCEPT !.is_processing = FALSE]
               /\ IF cl.ws # None
                  THEN /\ stopper' = [stopper EXCEPT !.pc = "disconnecting"]
                       /\ UNCHANGED flow
                  ELSE /\ stopper' = StopperIdle
                       /\ flow' = [flow EXCEPT !.result = stopper.err]
    /\ UNCHANGED <<sess, hist, caller, returned, audio, scheduled, pumps, starter>>

\* The disconnect of the finally block ends, and stop_and_process with it.
SpDisconnect ==
    /\ stopper.pc = "disconnecting"
    /\ Store(disconnect(sess))
    /\ stopper' = StopperIdle
    /\ flow' = [flow EXCEPT !.result = stopper.err]
    /\ UNCHANGED <<caller, returned, audio, scheduled, wf, pumps, starter>>

\* The response.create messages in outbox out.
RECURSIVE Creates(_)
Creates(out) ==
    IF out = <<>> THEN 0
    ELSE (IF Head(out) = ResponseCreateMsg THEN 1 ELSE 0) + Creates(Tail(out))

\* The server answers a response.create sent on the latest socket c with the
\* response.text.done message ev, which the receive loop of c reads and handles.
Answer(c, ev) ==
    /\ c = Len(net)
    /\ net[c].open
    /\ net[c].loop = "running"
    /\ hist.delivered < MaxEvents
    /\ hist.answered < Creates(sess.out)
    /\ LET r == receive_one(sess, c, ev)
       IN  /\ sess' = [cl |-> r.cl, net |-> r.net, out |-> r.out]
           /\ hist' = [hist EXCEPT !.delivered = @ + 1,
                                   !.scenario = IF c = 1 THEN FollowScenario(@, ev) ELSE @,
                                   !.answered = @ + 1]
    /\ UNCHANGED <<caller, returned, progVars>>

\* The steps of the workflow, the capture and the pump.
NextAudio ==
    \/ WfStartRecording
    \/ WfStartConnected
    \/ AudioCallback
    \/ ProcessAndQueue
    \/ \E i \in 1..Len(pumps) : PumpGet(i)
    \/ \E i \in 1..Len(pumps) : PumpSend(i)
    \/ \E i \in 1..Len(pumps) : PumpExit(i)
    \/ SpEnter
    \/ SpStop
    \/ SpDrain
    \/ SpDrainEnd
    \/ SpAttempt
    \/ SpSlice
    \/ SpCommit
    \/ SpRespond
    \/ SpWaitReturns
    \/ SpWaitTimesOut
    \/ SpConsumerEnds
    \/ SpDisconnect

\* The workflow against a server that stays silent: every response times out.
SpecAudio == Init /\ [][NextAudio]_vars

\* The network drops connection c: the socket is closed under the client and
\* its receive loop ends on ConnectionClosed; self.ws keeps the dead socket.
Drop(c) ==
    /\ net[c].open
    /\ net[c].loop = "running"
    /\ sess' = [sess EXCEPT !.net[c] = [@ EXCEPT !.open = FALSE, !.loop = "ended"]]
    /\ UNCHANGED <<hist, caller, returned, progVars>>

WfFrames == 1     \* frames of one recording made against the answering server

\* A frame of such a recording: delivered without input overflow, before
\* stop_and_process is called.
Frame ==
    /\ Len(audio.audio_data) < WfFrames
    /\ stopper.pc = "idle"
    /\ AudioCallback
    /\ flow'.produced # flow.produced

NextWorkflow ==
    \/ WfStartRecording
    \/ WfStartConnected
    \/ Frame
    \/ ProcessAndQueue
    \/ \E i \in 1..Len(pumps) : PumpGet(i)
    \/ \E i \in 1..Len(pumps) : PumpSend(i)
    \/ \E i \in 1..Len(pumps) : PumpExit(i)
    \/ SpEnter
    \/ SpStop
    \/ SpDrain
    \/ SpDrainEnd
    \/ SpAttempt
    \/ SpSlice
    \/ SpCommit
    \/ SpRespond
    \/ SpWaitReturns
    \/ SpWaitTimesOut
    \/ SpConsumerEnds
    \/ SpDisconnect
    \/ \E c \in Conns, ev \in WorkflowEvents : Answer(c, ev)
    \/ \E c \in Conns : Drop(c)

\* The workflow against a server that answers each response.create and a
\* network that can drop a connection.
SpecWorkflow == Init /\ [][NextWorkflow]_vars

\* start_recording is called while the workflow is busy: it logs and returns.
StartRecordingRefused ==
    /\ WorkflowBusy(wf)
    /\ flow' = [flow EXCEPT !.refused = "start_recording"]
    /\ UNCHANGED <<sess, hist, caller, returned, audio, scheduled, wf, pumps, starter, stopper>>

\* stop_and_process is called while is_processing is false: it logs and returns.
StopAndProcessRefused ==
    /\ ~wf.is_processing
    /\ flow' = [flow EXCEPT !.refused = "stop_and_process"]
    /\ UNCHANGED <<sess, hist, caller, returned, audio, scheduled, wf, pumps, starter, stopper>>

\* A call of start_recording, from its guard to its first suspension.
CallStartRecording == StartRecordingRefused \/ WfStartRecording

\* A call of stop_and_process, from its guard to its first suspension.
CallStopAndProcess == StopAndProcessRefused \/ SpEnter

NextCalls ==
    \/ StartRecordingRefused
    \/ StopAndProcessRefused
    \/ WfStartRecording
    \/ WfStartConnected
    \/ Frame
    \/ ProcessAndQueue
    \/ \E i \in 1..Len(pumps) : PumpGet(i)
    \/ \E i \in 1..Len(pumps) : PumpSend(i)
    \/ \E i \in 1..Len(pumps) : PumpExit(i)
    \/ SpEnter
    \/ SpStop
    \/ SpDrain
    \/ SpDrainEnd
    \/ SpAttempt
    \/ SpSlice
    \/ SpCommit
    \/ SpRespond
    \/ SpWaitReturns
    \/ SpWaitTimesOut
    \/ SpConsumerEnds
    \/ SpDisconnect
    \/ \E c \in Conns, ev \in WorkflowEvents : Answer(c, ev)

\* The workflow with its two calls made in every state, also where their
\* guards refuse them, against a server that answers.
SpecCalls == Init /\ [][NextCalls]_vars

(***************************************************************************)
(* The AudioRecordingService used on its own: initialize, start_recording, *)
(* the driver's callback, the loop's process_and_queue, get_audio_chunk,   *)
(* stop_recording and cleanup, for each configuration of the two rates.    *)
(***************************************************************************)
Rates == {24000, 48000}

InitCapture ==
    /\ sess = [cl |-> ClientInit, net |-> <<>>, out |-> <<>>]
    /\ caller = [pc |-> "idle", buf0 |-> ""]
    /\ returned = "none"
    /\ hist = HistInit
    /\ audio \in { AudioRecordingService(sr, tr) : sr \in Rates, tr \in Rates }
    /\ scheduled = <<>>
    /\ wf = WorkflowInit
    /\ pumps = <<>>
    /\ starter = "idle"
    /\ stopper = StopperIdle
    /\ flow = FlowInit

CapInitialize ==
    /\ \E outcome \in InitializeOutcomes :
          LET r == initialize(audio, outcome)
          IN  /\ audio' = r.a
              /\ flow' = [flow EXCEPT !.cap.last = IF r.value THEN "initialize returned True"
                                                   ELSE "initialize returned False"]
    /\ UNCHANGED <<sess, hist, caller, returned, scheduled, wf, pumps, starter, stopper>>

CapStart ==
    /\ \E outcome \in StartOutcomes :
          LET r == start_recording(audio, outcome)
          IN  /\ audio' = r.a
              /\ flow' = [flow EXCEPT
                     !.cap.last = IF r.ok THEN "start_recording returned"
                                  ELSE "start_recording raised",
                     !.cap.raw = IF r.ok /\ ~audio.recording THEN <<>> ELSE @]
    /\ UNCHANGED <<sess, hist, caller, returned, scheduled, wf, pumps, starter, stopper>>

\* The driver delivers the next frame to _audio_callback; processing it may
\* raise inside the callback.
CapFrame ==
    /\ audio.stream = "active"
    /\ flow.frames < MaxFrames
    /\ \E input_overflow \in BOOLEAN, fault \in CallbackFaults :
          LET indata == Chunk(flow.frames + 1, audio.sample_rate)
              r == audio_callback(audio, scheduled, indata, input_overflow, fault)
              failed == ~input_overflow /\ fault # "none"
              full == ~input_overflow /\ fault = "none"
          IN  /\ audio' = r.a
              /\ scheduled' = r.sched
              /\ flow' = [flow EXCEPT
                     !.frames = @ + 1,
                     !.cap = [@ EXCEPT
                        !.last = IF r.raised THEN "callback raised" ELSE "callback returned",
                        !.raw = IF ~input_overflow /\ fault # "process"
                                THEN Append(@, indata) ELSE @,
                        !.faulted = @ \/ failed,
                        !.resumed = @ \/ (flow.cap.faulted /\ full)]]
    /\ UNCHANGED <<sess, hist, caller, returned, wf, pumps, starter, stopper>>

\* A consumer of the queue: get_audio_chunk() returns a chunk.
CapGet ==
    /\ audio.audio_queue # <<>>
    /\ audio' = get_audio_chunk(audio).a
    /\ flow' = [flow EXCEPT !.run = <<>>, !.cap.last = "get_audio_chunk returned"]
    /\ UNCHANGED <<sess, hist, caller, returned, scheduled, wf, pumps, starter, stopper>>

CapStop ==
    /\ LET r == stop_recording(audio)
       IN  /\ audio' = r.a
           /\ flow' = [flow EXCEPT !.cap.last = IF audio.recording
                                                THEN "stop_recording returned"
                                                ELSE "stop_recording returned (not recording)",
                                   !.cap.ret = r.value]
    /\ UNCHANGED <<sess, hist, caller, returned, scheduled, wf, pumps, starter, stopper>>

CapCleanup ==
    /\ audio' = cleanup(audio)
    /\ flow' = [flow EXCEPT !.cap.last = IF audio.recording THEN "cleanup returned (was recording)"
                                         ELSE "cleanup returned"]
    /\ UNCHANGED <<sess, hist, caller, returned, scheduled, wf, pumps, starter, stopper>>

NextCapture ==
    \/ CapInitialize
    \/ CapStart
    \/ CapFrame
    \/ ProcessAndQueue
    \/ CapGet
    \/ CapStop
    \/ CapCleanup

\* The capture service driven directly, for every configuration of its rates.
SpecCapture == InitCapture /\ [][NextCapture]_vars

(***************************************************************************)
(* Properties of the audio path (checked under SpecAudio).                 *)
(***************************************************************************)
\* s is a subsequence of t: the elements of s occur in t in the same order.
RECURSIVE IsSubseq(_, _)
IsSubseq(s, t) ==
    IF s = <<>> THEN TRUE
    ELSE IF t = <<>> THEN FALSE
    ELSE IF Head(s) = Head(t) THEN IsSubseq(Tail(s), Tail(t))
    ELSE IsSubseq(s, Tail(t))

\* A step in which the event loop runs a scheduled process_and_queue().
Enqueues == scheduled # <<>> /\ scheduled' = Tail(scheduled)

\* C1: in every reachable state, whatever the interleaving of the enqueues
\* with the dequeues of the pump, the drain loop and stop_recording, the
\* chunk queue holds at most its capacity of chunks.
C1_QueueBounded == Len(audio.audio_queue) <= QueueCap

\* C1 witness: the queue is full after the pump has taken a chunk off it.
C1_Witness ==
    /\ Len(audio.audio_queue) = QueueCap
    /\ flow.sent # <<>>

\* C2: an enqueue on a full queue evicts exactly the head and admits the new
\* chunk at the tail; an enqueue on a queue that is not full evicts nothing;
\* and after more than capacity enqueues with no dequeue in between the
\* queue holds exactly the last `capacity` chunks enqueued, in that order.
C2_EvictOldest ==
    [][ Enqueues =>
          LET q == audio.audio_queue
              c == Head(scheduled)
          IN  /\ audio'.audio_queue = IF Len(q) >= QueueCap THEN Append(Tail(q), c)
                                                             ELSE Append(q, c)
              /\ Len(flow'.run) > QueueCap =>
                     audio'.audio_queue = LastN(flow'.run, QueueCap) ]_vars

\* C2 witness: more chunks than the capacity were enqueued with no dequeue,
\* and the first of them is no longer in the queue.
C2_Witness ==
    /\ Len(flow.run) > QueueCap
    /\ Len(audio.audio_queue) = QueueCap
    /\ Head(flow.run) # Head(audio.audio_queue)

\* C3: the chunks the pump tasks have passed to send_audio are, in order, a
\* subsequence of the chunks the hardware callback has produced: nothing is
\* reordered and nothing is sent twice.
C3_PumpForwardsInOrder == IsSubseq(flow.sent, flow.produced)

\* C3 witness: the pump has forwarded two chunks, and a chunk produced between
\* them was never forwarded.
C3_Witness ==
    /\ Len(flow.sent) >= 2
    /\ \E j \in 1..Len(flow.produced) :
          /\ flow.sent[1].frame < flow.produced[j].frame
          /\ flow.produced[j].frame < flow.sent[2].frame

(***************************************************************************)
(* Properties of the duplex session (checked under SpecSession).           *)
(***************************************************************************)
\* A step in which the receive loop of some connection handles message ev.
Handles(ev) == hist'.delivered # hist.delivered /\ \E c \in Conns : Receive(c, ev)

\* A step in which the task's wait_for_response() returns.
WaitEnds == caller.pc = "waiting" /\ caller'.pc = "idle"

\* The messages of the model the handler table sends to _handle_text_done /
\* to _handle_text_delta.
DoneEvents == { ev \in ServerEvents : ev.json /\ ev.type = "response.text.done" }

DeltaEvents == { ev \in ServerEvents : ev.json /\ ev.type = "response.text.delta" }

\* C4: the completion signal rises only in a step that handles a
\* response.text.done; that step appends the event's text to the transcript
\* accumulator and leaves the signal set; a step that handles a message of
\* any other kind leaves the signal as it was (stated contrapositively: a
\* step that changes the signal handles no such message).
C4_SignalOnlyByTextDone ==
    [][ /\ (~cl.response_event /\ cl'.response_event) =>
              \E ev \in DoneEvents : Handles(ev)
        /\ \A ev \in DoneEvents :
              Handles(ev) =>
                 /\ cl'.concatenated_text_buffer = cl.concatenated_text_buffer \o ev.text
                 /\ cl'.response_event
        /\ (cl'.response_event # cl.response_event) =>
              \A ev \in ServerEvents \ DoneEvents : ~Handles(ev) ]_vars

\* C4 witness: a text.done has been handled and the signal is set.
C4_Witness == cl.response_event /\ \E c \in Conns : net[c].done_seen

\* C5 as stated: handling a response.text.delta appends its delta to the
\* transcript accumulator and does not raise the completion signal.
C5_DeltaAppends ==
    [][ \A ev \in DeltaEvents :
          Handles(ev) =>
             /\ cl'.concatenated_text_buffer = cl.concatenated_text_buffer \o ev.delta
             /\ cl'.response_event = cl.response_event ]_vars

\* C5 amended: handling a response.text.delta leaves the transcript
\* accumulator unchanged and does not raise the completion signal.
C5_DeltaLeavesTranscript ==
    [][ \A ev \in DeltaEvents :
          Handles(ev) =>
             /\ cl'.concatenated_text_buffer = cl.concatenated_text_buffer
             /\ cl'.response_event = cl.response_event ]_vars

\* C5 witness: the first message read on the session was the increment
\* "Hello", and the transcript accumulator is still empty.
C5_Witness == hist.scenario = 1 /\ hist.delivered = 1 /\ cl.concatenated_text_buffer = ""

\* The first connection of a fresh session has read exactly the messages of
\* the end-to-end scenario, in order, and no other connection was opened.
ScenarioDone == Len(net) = 1 /\ hist.scenario = Len(EndToEndScenario)

\* C6: once a fresh session has read delta "Hello", delta " world" and done
\* "Hello world." in that order, the transcript is exactly "Hello world.",
\* and the wait_for_response() that ends on that connection returns True.
C6_EndToEnd ==
    /\ [](ScenarioDone => cl.concatenated_text_buffer = "Hello world.")
    /\ [][ (WaitEnds /\ ScenarioDone /\ cl.ws = 1) =>
              /\ returned' = "True"
              /\ cl'.concatenated_text_buffer = "Hello world." ]_vars

\* C6 witness: the scenario ran and wait_for_response() returned True.
C6_Witness ==
    /\ ScenarioDone
    /\ returned = "True"
    /\ caller.pc = "idle"
    /\ cl.concatenated_text_buffer = "Hello world."

\* C7: a wait_for_response() that ends by its timeout (the signal never came)
\* returns False - no error - and the transcript accumulator is what it was
\* when the call began.
C7_TimeoutReturnsFalse ==
    [][ (WaitEnds /\ ~cl.response_event) =>
           /\ returned' = "False"
           /\ cl'.concatenated_text_buffer = caller.buf0 ]_vars

\* C7 witness: a wait timed out on a connection that had read messages.
C7_Witness ==
    /\ returned = "False"
    /\ caller.pc = "idle"
    /\ hist.delivered > 0
    /\ cl.ws # None

\* C8 as stated: when wait_for_response() returns True on a connection, a
\* response.text.done was handled on that connection, and on return the
\* session holds no connection and that connection's receive loop is not
\* running.
C8_TrueMeansDoneOnThisConnection ==
    [][ (WaitEnds /\ returned' = "True" /\ cl.ws # None) =>
           /\ net[cl.ws].done_seen
           /\ cl'.ws = None
           /\ net'[cl.ws].loop # "running" ]_vars

\* C9 as stated: when connect() has returned, the completion signal and the
\* response-finished flag are both clear.
C9_ConnectResetsSignal ==
    /\ ~hist.at_connect.response_event
    /\ ~hist.at_connect.response_finished

\* C10 as stated: when connect() has returned, the transcript accumulator is
\* empty, so a transcript holds no text of an earlier connection.
C10_ConnectResetsTranscript == hist.at_connect.concatenated_text_buffer = ""

\* C11: with no connection handle, send_audio and commit_audio first connect
\* and then send their message on the new connection; they raise exactly when
\* that connect() raises, and then nothing is sent by the call.
C11_LazyReconnect ==
    cl.ws = None =>
       \A outcome \in ConnectOutcomes, call \in {"send_audio", "commit_audio"} :
          LET r == IF call = "send_audio" THEN send_audio(sess, <<1>>, outcome)
                   ELSE commit_audio(sess, outcome)
              msg == IF call = "send_audio" THEN AppendMsg(<<1>>) ELSE CommitMsg
              k == connect(sess, outcome)
          IN  /\ r.ok = k.ok
              /\ k.ok => /\ r.cl.ws = Len(net) + 1
                         /\ r.net[r.cl.ws].open
                         /\ r.net[r.cl.ws].loop = "running"
                         /\ r.out = <<SessionUpdateMsg, msg>>
              /\ ~k.ok => r.out = k.out /\ r.cl = k.cl /\ r.net = k.net

\* C11 witness: a session that was connected and has disconnected, on which
\* send_audio reconnects and sends on connection 2.
C11_Witness ==
    /\ cl.ws = None
    /\ Len(net) = 1
    /\ ~net[1].open
    /\ LET r == send_audio(sess, <<1>>, "ok")
       IN  r.ok /\ r.cl.ws = 2 /\ r.out = <<SessionUpdateMsg, AppendMsg(<<1>>)>>

\* C12 as stated: a disconnect() made in any state of the session leaves it
\* with no connection handle, no session identifier and no receive loop
\* running, does not raise, and a further disconnect() changes nothing.
C12_DisconnectStopsEverything ==
    [][ CallDisconnect =>
          /\ cl'.ws = None
          /\ cl'.session_id = None
          /\ \A c \in Conns : net'[c].loop # "running"
          /\ disconnect(disconnect(sess)) = disconnect(sess)
          /\ disconnect(sess).ok ]_vars

\* C13: reading a message that is undecodable, of an unrecognized type or
\* error-bearing raises nothing to the task using the session, leaves the
\* transcript accumulator, the completion signal and the connection handle as
\* they were, and leaves the receive loop that read it running.
C13_LoggedOnlyIsNotFatal ==
    [][ \A ev \in { e \in ServerEvents : LoggedOnly(e) } :
          \A c \in Conns :
             (hist'.delivered # hist.delivered /\ Receive(c, ev)) =>
                /\ cl' = cl
                /\ caller' = caller /\ returned' = returned
                /\ net'[c].loop = "running"
                /\ net'[c].open ]_vars

\* C13 witness: such a message has been read on the first connection, whose
\* receive loop has gone on to read another message.
C13_Witness ==
    /\ hist.logged_only
    /\ hist.delivered >= 2
    /\ Len(net) = 1
    /\ net[1].loop = "running"

(***************************************************************************)
(* Properties of stop_and_process (checked under SpecWorkflow).            *)
(***************************************************************************)
\* The first stop_and_process of a session has left its retry loop with a
\* transcript on the third attempt, the server having sent a single message:
\* the waits of attempts 1 and 2 timed out.
ThirdAttemptSucceeds ==
    /\ stopper.pc = "finally"
    /\ stopper.err = "none"
    /\ stopper.attempt = max_retries - 1
    /\ Len(flow.consumed) = 1
    /\ hist.delivered = 1

\* C14: when the response wait times out on attempts 1 and 2 and attempt 3
\* delivers a non-empty transcript, stop_and_process produces that transcript
\* and the cycle has made exactly 3 connect attempts.
C14_ThreeConnectAttempts ==
    ThirdAttemptSucceeds =>
       /\ wf.transcript = "Hello world."
       /\ Len(net) = max_retries

\* A step in which an attempt of the retry loop ends without a transcript:
\* the wait timed out, or it returned and the accumulated text is empty.
AttemptFails ==
    /\ stopper.pc = "wait"
    /\ stopper'.pc # "wait"
    /\ ~(stopper'.pc = "finally" /\ stopper'.err = "none")

\* The errors raised once the retries are used up.
RetryErrors ==
    { "RuntimeError: No transcription received after all retries",
      "RuntimeError: Response timeout after all retries" }

\* C15: an attempt that ends with an empty accumulated transcript or with a
\* response timeout is retried while fewer than 3 attempts have been made;
\* the hard error is raised only after the 3rd attempt has failed; and a
\* cycle never makes more than 3 attempts, each with one response.create.
C15_RetryUpToThree ==
    [][ /\ AttemptFails =>
              IF stopper.attempt < max_retries - 1
              THEN /\ stopper'.pc = "attempt"
                   /\ stopper'.attempt = stopper.attempt + 1
                   /\ flow'.consumed = flow.consumed
              ELSE /\ stopper'.pc = "finally"
                   /\ stopper'.err \in RetryErrors
        /\ (stopper.pc # "finally" /\ stopper'.pc = "finally" /\ stopper'.err \in RetryErrors) =>
              /\ stopper.pc = "wait"
              /\ stopper.attempt = max_retries - 1
        /\ stopper'.attempt < max_retries
        /\ Creates(sess'.out) > Creates(sess.out) =>
              /\ stopper.pc = "respond"
              /\ stopper'.pc = "wait"
              /\ Creates(sess'.out) = Creates(sess.out) + 1 ]_vars

\* C15 witness: two attempts were retried and the third one, answered with
\* an empty transcript, raised the hard error.
C15_Witness ==
    /\ stopper.pc = "finally"
    /\ stopper.attempt = max_retries - 1
    /\ stopper.err = "RuntimeError: No transcription received after all retries"
    /\ hist.delivered >= 1

\* A step in which the retry loop is left with a transcript: self.transcript
\* is set and the loop ends by `break`.
AttemptSucceeds ==
    /\ stopper.pc = "wait"
    /\ stopper'.pc = "finally"
    /\ stopper'.err = "none"

\* C16: a response wait that saw no completion signal is never a success:
\* the retry loop is left with a transcript only in a step whose
\* wait_for_response() returned True, whatever the accumulated text holds.
C16_TimeoutIsNeverSuccess ==
    [][ AttemptSucceeds => wait_for_response(sess).value = "True" ]_vars

\* A step in which a send of the retry loop (append, commit or
\* response.create) is made on a socket the network has dropped.
SendOnDroppedSocket ==
    /\ stopper.pc \in {"slices", "commit", "respond"}
    /\ cl.ws # None
    /\ ~net[cl.ws].open
    /\ stopper' # stopper

\* C17: a send that fails inside an attempt because the connection dropped
\* is retried while fewer than 3 attempts have been made: the workflow goes
\* on to another attempt instead of raising to the caller.
C17_DropIsRetried ==
    [][ (SendOnDroppedSocket /\ stopper.attempt < max_retries - 1) =>
           /\ stopper'.pc = "attempt"
           /\ stopper'.attempt = stopper.attempt + 1 ]_vars

\* A step in which a started stop_and_process finishes: it returns or raises.
StopAndProcessEnds ==
    /\ stopper.pc # "idle"
    /\ stopper'.pc = "idle"

\* C18: whenever a started stop_and_process finishes, by success or by any
\* failure, the session holds no connection handle and the workflow's
\* retained audio (_current_audio_data) has been reset.
C18_FinalizeUnconditional ==
    [][ StopAndProcessEnds =>
           /\ cl'.ws = None
           /\ wf'.current_audio_data = <<>> ]_vars

\* A step in which EmailDraftAgent().run(...) is called.
ConsumerInvoked == Len(flow'.consumed) = Len(flow.consumed) + 1

\* C19: the email-drafting agent is invoked only in a cycle whose retry loop
\* obtained a non-empty transcript, and with that transcript; in a cycle that
\* fails it is not invoked.
C19_ConsumerOnlyOnSuccess ==
    [][ ConsumerInvoked =>
           /\ stopper'.err = "none"
           /\ wf'.transcript # ""
           /\ flow'.consumed[Len(flow'.consumed)] = wf'.transcript ]_vars

\* A step in which the workflow's start_recording raises to its caller.
StartFails ==
    /\ starter = "connecting"
    /\ starter' = "idle"
    /\ ~wf'.is_processing

\* A step in which stop_and_process raises to its caller.
StopFails ==
    /\ StopAndProcessEnds
    /\ flow'.result # "none"

\* C20: when a failure of start_recording or of stop_and_process is reported
\* to the caller, the hardware input stream is not open and no network
\* connection of the session is open.
C20_FailureLeavesNothingOpen ==
    [][ (StartFails \/ StopFails) =>
           /\ audio'.stream = "none"
           /\ \A c \in 1..Len(net') : ~net'[c].open ]_vars

(***************************************************************************)
(* Properties of the capture service (checked under SpecCapture).          *)
(***************************************************************************)
\* C21: start_recording called while a capture is in progress fails with an
\* error and leaves the stream, the recording flag and the buffer as they are.
C21_StartWhileRecordingFails ==
    [][ (audio.recording /\ CapStart) =>
           /\ flow'.cap.last = "start_recording raised"
           /\ audio' = audio ]_vars

\* The chunks the processor p makes of the frames fs, in order.
RECURSIVE Processed(_, _)
Processed(p, fs) ==
    IF fs = <<>> THEN <<>>
    ELSE <<process_audio_chunk(p, Head(fs))>> \o Processed(p, Tail(fs))

\* C22: stop_recording during a capture returns the in-order concatenation
\* of the frames captured since the start (empty, without raising, when
\* there were none); called while not recording it returns empty and changes
\* nothing; in every case the recording flag is false and the hardware
\* stream is closed afterwards.
C22_StopReturnsTheCapture ==
    [][ CapStop =>
           /\ flow'.cap.ret = IF audio.recording
                              THEN Processed(audio.audio_processor, flow.cap.raw)
                              ELSE <<>>
           /\ ~audio.recording => audio' = audio
           /\ ~audio'.recording
           /\ audio'.stream = "none" ]_vars

C24_CallbackNeverRaises ==
    [][ CapFrame =>
           /\ flow'.cap.last = "callback returned"
           /\ audio'.stream = "active"
           /\ audio'.recording = audio.recording
           /\ audio'.audio_queue = audio.audio_queue ]_vars

\* C24 witness: the processing of a frame raised inside the callback, and a
\* later frame was processed in full and is in the buffer.
C24_Witness ==
    /\ flow.cap.faulted
    /\ flow.cap.resumed
    /\ flow.cap.last = "callback returned"
    /\ audio.audio_data # <<>>

\* A step in which the callback appends the chunk of a frame to audio_data.
FrameKept ==
    /\ CapFrame
    /\ Len(audio'.audio_data) = Len(audio.audio_data) + 1

\* C25: resampling is the identity when the source rate equals the target
\* rate: a capture configured with sample_rate = target_sample_rate = r, for
\* any r, gets every frame back from process_audio_chunk unchanged.
C25_SameRateIsIdentity ==
    [][ (FrameKept /\ audio.sample_rate = audio.target_sample_rate) =>
           Last(audio'.audio_data) = Chunk(flow'.frames, audio.sample_rate) ]_vars

\* A step in which the callback processes a frame in full: no overflow
\* status, no exception, the enqueue scheduled.
FrameInFull ==
    /\ CapFrame
    /\ Len(scheduled') = Len(scheduled) + 1

\* The frame the driver delivers in a step of the callback.
Delivered == Chunk(flow'.frames, audio.sample_rate)

PumpCancelled ==
    /\ wf.stream_task # None
    /\ pumps[wf.stream_task].pc = "cancelled"

\* C26: after the pump was cancelled, the chunks it had not read are not
\* lost: stop_recording succeeds and leaves them in the queue, and each step
\* of the drain loop appends the chunk it gets to the retained audio.
C26_CancelLosesNoChunk ==
    [][ /\ (PumpCancelled /\ stopper.pc = "stop" /\ stopper'.pc # "stop") =>
              audio'.audio_queue = audio.audio_queue
        /\ (PumpCancelled /\ stopper.pc = "drain" /\ audio'.audio_queue # audio.audio_queue
                /\ scheduled' = scheduled) =>
              wf'.current_audio_data = Append(wf.current_audio_data, Head(audio.audio_queue))
      ]_vars

\* Pump i is inside send_audio, suspended in its send or its reconnect.
InSendAudio(i) == pumps[i].pc = "sending"

\* A step in which a task other than pump i completes an outbound operation
\* of the session: another pump's send_audio, or a send_audio, commit_audio
\* or start_response of stop_and_process.
OtherOutbound(i) ==
    \/ \E j \in (1..Len(pumps)) \ {i} :
          /\ pumps[j].pc = "sending"
          /\ pumps'[j].pc \in {"poll", "failed"}
    \/ /\ stopper.pc \in {"slices", "commit", "respond"}
       /\ stopper' # stopper

\* C27: the outbound-send path of the session is mutually exclusive: while
\* a pump is suspended inside send_audio, no other task performs an outbound
\* operation of the same session.
C27_SendsExclusive ==
    [][ \A i \in 1..Len(pumps) :
           (InSendAudio(i) /\ pumps'[i].pc = "sending") => ~OtherOutbound(i) ]_vars

(***************************************************************************)
(* Properties of the session's connections (checked under SpecSession).    *)
(***************************************************************************)
\* C28: at most one connection is active per session: whatever connects,
\* lazy reconnects and disconnects were made, never more than one connection
\* of the session is open and never more than one receive loop is running.
C28_AtMostOneConnection ==
    /\ Cardinality({ c \in Conns : net[c].open }) <= 1
    /\ Cardinality({ c \in Conns : net[c].loop = "running" }) <= 1

EmptyAudioError == "ValueError: No audio data recorded"

\* stop_recording() is about to run in a cycle that captured no frame: the
\* buffer is empty, or no capture is in progress.
StopsWithNoFrames ==
    /\ stopper.pc = "stop"
    /\ stopper'.pc # "stop"
    /\ (audio.audio_data = <<>> \/ ~audio.recording)

\* C29: when stop is invoked on a cycle that captured zero frames, the cycle
\* fails with the empty-audio error and the retry loop is never entered:
\* stop_and_process sends no append, commit or response.create.
C29_EmptyAudioSendsNothing ==
    [][ /\ StopsWithNoFrames =>
              /\ stopper'.pc = "finally"
              /\ stopper'.err = EmptyAudioError
              /\ sess' = sess
        /\ (stopper.err = EmptyAudioError /\ stopper' # stopper) =>
              /\ stopper'.pc \in {"disconnecting", "idle"}
              /\ sess'.out = sess.out
              /\ stopper'.pc = "idle" => flow'.result \in {EmptyAudioError, "consumer error"}
      ]_vars

\* C29 witness: a cycle whose frames were all dropped for overflow has
\* failed with the empty-audio error, the session having sent nothing but
\* its session.update.
C29_Witness ==
    /\ flow.result = EmptyAudioError
    /\ flow.frames >= 1
    /\ flow.produced = <<>>
    /\ sess.out = <<SessionUpdateMsg>>
    /\ stopper.pc = "idle"

(***************************************************************************)
(* Properties of the retry loop's sends (checked under SpecAudio).         *)
(***************************************************************************)
\* The append messages that carry data in slices of SliceChunks chunks, the
\* last one shorter when data is not a multiple of it.
RECURSIVE Chop(_)
Chop(data) ==
    IF data = <<>> THEN <<>>
    ELSE IF Len(data) <= SliceChunks THEN << AppendMsg(data) >>
    ELSE << AppendMsg(SubSeq(data, 1, SliceChunks)) >>
            \o Chop(SubSeq(data, SliceChunks + 1, Len(data)))

\* The chunks carried by the append messages ms, concatenated.
RECURSIVE Carried(_)
Carried(ms) ==
    IF ms = <<>> THEN <<>> ELSE Head(ms).audio[2] \o Carried(Tail(ms))

\* A step in which the retry loop's attempt completes one of its sends.
AttemptSends == flow'.att # flow.att /\ flow'.att # <<>>

\* C31: the messages an attempt of the retry loop sends are, in order, the
\* appends that carry the whole retained audio in slices of at most the
\* slice size, then one commit, then one response.create, and the wait is
\* entered only after all of them; every attempt, the first and each retry,
\* starts again from the first slice; and each of these sends puts exactly
\* its message on the socket the session holds.
C31_AttemptProtocolOrder ==
    /\ [] LET data == wf.current_audio_data
              appends == Chop(data)
          IN  /\ Carried(appends) = data
              /\ \A k \in 1..Len(appends) : Len(appends[k].audio[2]) <= SliceChunks
              /\ stopper.pc = "attempt" => flow.att = <<>>
              /\ stopper.pc = "slices" =>
                     /\ stopper.idx < Len(appends)
                     /\ flow.att = SubSeq(appends, 1, stopper.idx)
              /\ stopper.pc = "commit" => flow.att = appends
              /\ stopper.pc = "respond" => flow.att = Append(appends, CommitMsg)
              /\ stopper.pc = "wait" =>
                     flow.att = appends \o << CommitMsg, ResponseCreateMsg >>
    /\ [][ AttemptSends =>
              /\ flow'.att = Append(flow.att, Last(flow'.att))
              /\ sess'.out = Append(sess.out, Last(flow'.att)) ]_vars

\* C31 witness: the third attempt of a cycle, on a retained audio of three
\* chunks (two slices), has sent its messages and waits for the response.
C31_Witness ==
    /\ stopper.pc = "wait"
    /\ stopper.attempt = max_retries - 1
    /\ Len(wf.current_audio_data) = 3
    /\ flow.att = << AppendMsg(SubSeq(wf.current_audio_data, 1, 2)),
                     AppendMsg(SubSeq(wf.current_audio_data, 3, 3)),
                     CommitMsg, ResponseCreateMsg >>

(***************************************************************************)
(* Properties of connect() (checked under SpecSession).                    *)
(***************************************************************************)
\* A step in which a connect(), called explicitly or from a send that found
\* no socket, returns normally: a new connection is open.
ConnectSucceeds ==
    /\ Len(net') = Len(net) + 1
    /\ net'[Len(net')].open

\* C32: when a connect(), explicit or lazy, succeeds, the first message on
\* the new connection is the one session.update, ahead of the append,
\* commit or response.create of the call that connected, and one receive
\* loop is started, reading that connection; no further session.update is
\* sent on a connection and no receive loop is started at any other time.
C32_ConnectConfiguresFirst ==
    /\ [] (cl.ws # None /\ net[cl.ws].loop # "none" =>
              /\ sess.out # <<>>
              /\ Head(sess.out) = SessionUpdateMsg
              /\ \A j \in 2..Len(sess.out) : sess.out[j] # SessionUpdateMsg)
    /\ [][ /\ ConnectSucceeds =>
                 /\ cl'.ws = Len(net')
                 /\ cl'.receive_task = Len(net')
                 /\ net'[Len(net')].loop = "running"
                 /\ Head(sess'.out) = SessionUpdateMsg
                 /\ Len(sess'.out) <= 2
                 /\ \A j \in 2..Len(sess'.out) :
                        sess'.out[j].type \in { "input_audio_buffer.append",
                                                "input_audio_buffer.commit",
                                                "response.create" }
            /\ \A c \in Conns : net'[c].loop = "running" => net[c].loop = "running"
          ]_vars

\* C32 witness: the session's second connection was opened by a send that
\* found no socket; it carries session.update and then the append, and its
\* receive loop runs.
C32_Witness ==
    /\ Len(net) = 2
    /\ cl.ws = 2
    /\ net[2].open
    /\ net[2].loop = "running"
    /\ sess.out = << SessionUpdateMsg, AppendMsg(<<1>>) >>

(***************************************************************************)
(* Properties of wait_for_response() on a reused session (SpecSession).    *)
(***************************************************************************)
\* A step in which a wait_for_response() ends by its timeout on an open
\* connection from which no response.text.done was read.
TimesOutWithoutDone ==
    /\ WaitEnds
    /\ ~cl.response_event
    /\ cl.ws # None
    /\ net[cl.ws].open
    /\ ~net[cl.ws].done_seen

\* C33 as stated: a wait_for_response() that times out with no
\* response.text.done read on the current connection leaves that connection
\* open and held by the session, on the first turn of a session object and
\* on every later one.
C33_TimeoutKeepsConnection ==
    [][ TimesOutWithoutDone =>
           /\ cl'.ws = cl.ws
           /\ net'[cl.ws].open
           /\ net'[cl.ws].loop = net[cl.ws].loop ]_vars

(***************************************************************************)
(* Properties of the start of finalization (checked under SpecAudio).      *)
(***************************************************************************)
\* A step in which the drain loop ends while the session holds no socket.
FinalizationBeginsDisconnected ==
    /\ stopper.pc = "drain"
    /\ stopper'.pc # "drain"
    /\ cl.ws = None

\* C34 as stated: when the session holds no connection as finalization
\* begins, the cycle does not fail there: the retry loop is entered, and an
\* attempt - the first like every other - that finds no socket connects
\* before it sends.
C34_FirstAttemptReconnects ==
    [][ /\ FinalizationBeginsDisconnected =>
              /\ stopper'.pc = "attempt"
              /\ flow'.consumed = flow.consumed
        /\ (stopper.pc = "attempt" /\ stopper'.pc = "slices") =>
              /\ cl'.ws # None
              /\ cl.ws = None => Len(net') = Len(net) + 1
      ]_vars

\* stop_and_process holds the retained audio of the cycle: from the return
\* of stop_recording to the end of the retry loop.
Finalizing == stopper.pc \in {"drain", "attempt", "slices", "commit", "respond", "wait"}

\* C35 as stated: the retained audio holds every frame captured in the cycle
\* exactly once, in capture order: stop_recording's return is the whole
\* capture buffer, and the drain loop never appends a chunk whose audio is
\* already in the retained audio.
C35_RetainedAudioHasEachFrameOnce ==
    /\ [] (Finalizing =>
              \A i, j \in 1..Len(wf.current_audio_data) :
                 i < j => wf.current_audio_data[i].frame < wf.current_audio_data[j].frame)
    /\ [][ (stopper.pc = "stop" /\ stopper'.pc = "drain") =>
              wf'.current_audio_data = audio.audio_data ]_vars

(***************************************************************************)
(* Properties of a failed connect() (checked under SpecSession).           *)
(***************************************************************************)
\* The ways connect() can raise: at websockets.connect, or at the send of
\* the session.update in _on_open.
ConnectFailures == ConnectOutcomes \ {"ok"}

\* C36 as stated: a connect() of a disconnected session that fails, at the
\* opening of the socket or at the send of the configuration message,
\* leaves the session disconnected - no connection handle, no receive loop
\* started - so that the next send_audio finds no socket, connects and sends
\* on the new connection.
C36_FailedConnectLeavesDisconnected ==
    cl.ws = None =>
       \A outcome \in ConnectFailures :
          LET r == connect(sess, outcome)
              later == send_audio(r, <<1>>, "ok")
          IN  /\ ~r.ok
              /\ r.cl.ws = None
              /\ r.cl.receive_task = cl.receive_task
              /\ \A c \in 1..Len(r.net) : r.net[c].loop # "running"
              /\ later.ok
              /\ Len(later.net) = Len(r.net) + 1
              /\ later.cl.ws = Len(later.net)
              /\ later.out = << SessionUpdateMsg, AppendMsg(<<1>>) >>

(***************************************************************************)
(* Properties of the end of stop_and_process (checked under SpecWorkflow). *)
(***************************************************************************)
\* A step in which the call of the email-drafting agent in the finally block
\* ends, by a return or by an exception.
ConsumerEnds ==
    /\ stopper.pc = "finally"
    /\ stopper'.pc # "finally"

\* C37 as stated: however a started stop_and_process finishes - with a
\* transcript, with a failure of its main path, or with the email-drafting
\* agent raising in the finally block - it has cleared is_processing and
\* has disconnected the session if it held a socket, so that a new cycle
\* can be started.
C37_FinishClearsProcessing ==
    [][ /\ ConsumerEnds =>
              /\ ~wf'.is_processing
              /\ cl.ws # None => stopper'.pc = "disconnecting"
        /\ StopAndProcessEnds => cl'.ws = None
      ]_vars

(***************************************************************************)
(* Properties of interleaved start_recording and stop_and_process calls    *)
(* (checked under SpecAudio).                                              *)
(***************************************************************************)
\* The pump tasks that have not ended: polling the queue or inside send_audio.
AlivePumps == { i \in 1..Len(pumps) : pumps[i].pc \in {"poll", "sending"} }

\* C38 as stated: in every reachable state, whatever the interleaving of
\* start_recording and stop_and_process, while the capture is recording or
\* a pump task is alive the workflow's is_processing flag is true (so that
\* stop_and_process is not refused), and at most one pump task is alive.
C38_RecordingImpliesProcessing ==
    /\ (audio.recording \/ AlivePumps # {}) => wf.is_processing
    /\ Cardinality(AlivePumps) <= 1

(***************************************************************************)
(* Properties of the guards of the two calls (checked under SpecCalls).    *)
(***************************************************************************)
\* A step that changes nothing of the session, the capture, the pump tasks,
\* the two call tasks and the workflow's fields, and invokes no consumer.
NoEffect ==
    /\ sess' = sess
    /\ audio' = audio
    /\ scheduled' = scheduled
    /\ pumps' = pumps
    /\ starter' = starter
    /\ stopper' = stopper
    /\ wf' = wf
    /\ flow'.consumed = flow.consumed

\* C39: a start_recording called while is_processing or is_shutting_down is
\* true, and a stop_and_process called while is_processing is false, do
\* nothing: no connection is opened, the capture is neither started nor
\* stopped, no pump task is created or cancelled, the email-drafting agent
\* is not invoked, and is_processing, the transcript and the retained audio
\* stay as they are.
C39_RefusedCallsAreNoOps ==
    [][ /\ ((wf.is_processing \/ wf.is_shutting_down) /\ CallStartRecording) => NoEffect
        /\ (~wf.is_processing /\ CallStopAndProcess) => NoEffect ]_vars

\* C39 witness: in the second cycle of a workflow that holds the transcript
\* and the retained audio of the first, with the capture recording and the
\* pump alive, a start_recording has just been refused.
C39_Witness ==
    /\ flow.refused = "start_recording"
    /\ wf.is_processing
    /\ wf.transcript # ""
    /\ wf.current_audio_data # <<>>
    /\ audio.recording
    /\ AlivePumps # {}
    /\ Len(net) = 2
    /\ stopper.pc = "idle"

(***************************************************************************)
(* Termination of stop_and_process (checked under SpecAudio).              *)
(***************************************************************************)
\* The drain loop of stop_and_process is running.
Draining == stopper.pc = "drain"

\* C40 as stated, as the bounds its loops run within: the drain loop has
\* only the chunks to take that the stopped capture left behind - while it
\* runs the capture delivers no frame - so it ends with the first empty
\* get; and the retry loop makes at most max_retries attempts.  (The wait
\* for the cancelled pump task ends by its own 2 s timeout.)
C40_LoopsAreBounded ==
    /\ Draining => audio.stream # "active"
    /\ stopper.attempt < max_retries

=============================================================================
